---- MODULE Spec2Model ----
(***************************************************************************)
(* A model of the screener.in scrapers of this repository: the fragment    *)
(* extractors (pure functions over a parsed page), the page fetches, the   *)
(* per-symbol scrape_and_save pipelines and the batch endpoints that drive *)
(* them (sequential loop with a sleep, asyncio.gather, and the selenium    *)
(* variant that runs the pipelines while building gather's arguments).     *)
(***************************************************************************)
EXTENDS Integers, Sequences, FiniteSets, TLC

VARIABLES
    input,      \* extractor harness: the parsed markup handed to an extractor
    out,        \* extractor harness: the extractor applied and what it did
    run,        \* one call of a batch endpoint: its pipelines, results and store
    twin,       \* the same call in a world where one fetch fails (see fault)
    fault       \* the position and the fetch that fails in the twin, if any

vars == <<input, out, run, twin, fault>>

(***************************************************************************)
(* Bounds of the model.                                                    *)
(***************************************************************************)
MaxCols == 2        \* header cells per table (rows carry up to MaxCols + 1 cells)
MaxRows == 2        \* body rows per table
MaxItems == 2       \* <li> items per list
MaxSyms == 2        \* symbols per request

(***************************************************************************)
(* Text. A text is a sequence of characters; get_text(strip=True) and      *)
(* str.strip() drop the surrounding blanks.                                *)
(***************************************************************************)
RECURSIVE LStrip(_)
LStrip(s) == IF s # <<>> /\ Head(s) = " " THEN LStrip(Tail(s)) ELSE s

RECURSIVE RStrip(_)
RStrip(s) ==
    IF s # <<>> /\ s[Len(s)] = " " THEN RStrip(SubSeq(s, 1, Len(s) - 1)) ELSE s

Strip(s) == RStrip(LStrip(s))

get_text(node) == Strip(node)

\* The raw header texts a page may carry: an unlabelled header, and two
\* texts that differ only by blanks.
RawTexts == { <<>>, <<"x">>, <<" ", "x">>, <<"y">> }

\* The text of the c-th <td> of the r-th body row (already free of blanks).
CellText(r, c) == <<ToString(r), ":", ToString(c)>>

(***************************************************************************)
(* Python values: None, dict, list, and a call's result (returned value or *)
(* raised exception).                                                      *)
(***************************************************************************)
PyNone == [t |-> "None"]
PyDict(d) == [t |-> "dict", d |-> d]
PyList(l) == [t |-> "list", l |-> l]

Truthy(v) ==
    CASE v.t = "None" -> FALSE
      [] v.t = "dict" -> DOMAIN v.d # {}
      [] v.t = "list" -> v.l # <<>>

\* code: the status code an exception's text carries (0: none).
Ret(v) == [exc |-> "", code |-> 0, val |-> v]
Raise(e) == [exc |-> e, code |-> 0, val |-> PyNone]
RaiseCode(e, c) == [exc |-> e, code |-> c, val |-> PyNone]
Raised(r) == r.exc # ""

EmptyDict == [k \in {} |-> <<>>]

\* {key: value}
Dict1(k, v) == [x \in {k} |-> v]

\* {**a, **b}: the later mapping wins on a shared key.
Merge(a, b) ==
    [k \in DOMAIN a \cup DOMAIN b |-> IF k \in DOMAIN b THEN b[k] ELSE a[k]]

(***************************************************************************)
(* Parsed markup. A table fragment: its container element, the             *)
(* table.data-table in it, the <thead> and its <tr>, the header <th>       *)
(* texts, the <tbody> and the <td> texts of its rows.                      *)
(***************************************************************************)
NoTable ==
    [container |-> FALSE, data_table |-> FALSE, thead |-> FALSE,
     head_tr |-> FALSE, headers |-> <<>>, tbody |-> FALSE, rows |-> <<>>]

SeqsUpTo(S, n) == UNION { [1..k -> S] : k \in 0..n }

\* Body rows given the number of cells of each row.
RowsOf(lens) == [r \in 1..Len(lens) |-> [c \in 1..lens[r] |-> CellText(r, c)]]

Tables ==
    { NoTable, [NoTable EXCEPT !.container = TRUE] }
    \cup
    { [container |-> TRUE, data_table |-> TRUE, thead |-> th, head_tr |-> FALSE,
       headers |-> <<>>, tbody |-> FALSE, rows |-> <<>>] : th \in BOOLEAN }
    \cup
    { [container |-> TRUE, data_table |-> TRUE, thead |-> th, head_tr |-> FALSE,
       headers |-> <<>>, tbody |-> TRUE, rows |-> RowsOf(lens)] :
         th \in BOOLEAN, lens \in SeqsUpTo(0..(MaxCols + 1), MaxRows) }
    \cup
    { [container |-> TRUE, data_table |-> TRUE, thead |-> TRUE, head_tr |-> TRUE,
       headers |-> hs, tbody |-> FALSE, rows |-> <<>>] :
         hs \in SeqsUpTo(RawTexts, MaxCols) }
    \cup
    { [container |-> TRUE, data_table |-> TRUE, thead |-> TRUE, head_tr |-> TRUE,
       headers |-> hs, tbody |-> TRUE, rows |-> RowsOf(lens)] :
         hs \in SeqsUpTo(RawTexts, MaxCols),
         lens \in SeqsUpTo(0..(MaxCols + 1), MaxRows) }

\* A list fragment: the <ul> and, per <li>, the name and value sub-elements
\* (top-ratios) or the link and source sub-elements (list-links).
NoList == [container |-> FALSE, items |-> <<>>]

\* The text of the value sub-element of the n-th <li>.
ValueText(n) == <<"v", ToString(n)>>

ItemShapes == [has_name : BOOLEAN, name : RawTexts, has_value : BOOLEAN]

ItemsOf(shapes) ==
    [n \in 1..Len(shapes) |->
        [has_name |-> shapes[n].has_name, name |-> shapes[n].name,
         has_value |-> shapes[n].has_value, value |-> ValueText(n)]]

Lists ==
    { NoList } \cup
    { [container |-> TRUE, items |-> ItemsOf(sh)] : sh \in SeqsUpTo(ItemShapes, MaxItems) }

\* A parsed page, here one that carries the table in every table slot and the list in every
\* list slot.
SoupOf(tbl, ul) ==
    [ul_top_ratios |-> ul, list_links |-> ul, quarterly_shp |-> tbl,
     profit_loss |-> tbl, balance_sheet |-> tbl, quarters |-> tbl,
     shareholding |-> tbl, cash_flow |-> tbl, peers_placeholder |-> tbl,
     ratios |-> tbl, peers |-> tbl,
     annual_reports |-> ul, credit_ratings |-> ul, concalls |-> ul]

(***************************************************************************)
(* Extractors.                                                             *)
(***************************************************************************)
Max(S) == CHOOSE m \in S : \A x \in S : x <= m

\* {headers[idx]: cell.get_text(strip=True) for idx, cell in enumerate(cells)}
\* for a row with no more cells than headers: a repeated header keeps the
\* cell of its last position.
row_data(headers, cells) ==
    [h \in { headers[i] : i \in 1..Len(cells) } |->
        cells[Max({ i \in 1..Len(cells) : headers[i] = h })]]

\* [th.get_text(strip=True) for th in header_row.find_all("th")]
header_texts(ths) == [i \in 1..Len(ths) |-> get_text(ths[i])]

\* data_table.find("tr"): the first <tr> of the table, the header row when
\* the <thead> has one, else the first body row (which carries no <th>).
first_tr(tbl) ==
    IF tbl.thead /\ tbl.head_tr THEN [found |-> TRUE, ths |-> tbl.headers]
    ELSE IF tbl.tbody /\ tbl.rows # <<>> THEN [found |-> TRUE, ths |-> <<>>]
    ELSE [found |-> FALSE, ths |-> <<>>]

\* section_rows without the cell-count check: a short row is kept (a long row
\* is still left out).
RECURSIVE section_rows_unchecked(_, _)
section_rows_unchecked(headers, trs) ==
    IF trs = <<>> THEN <<>>
    ELSE LET cells == Head(trs) IN
         IF Len(cells) > Len(headers)
         THEN section_rows_unchecked(headers, Tail(trs))
         ELSE <<row_data(headers, cells)>> \o section_rows_unchecked(headers, Tail(trs))

\* for tr in tbody.find_all("tr"): skip the row on a cell-count mismatch,
\* else append the header -> cell mapping.
RECURSIVE section_rows(_, _)
section_rows(headers, trs) ==
    IF trs = <<>> THEN <<>>
    ELSE LET cells == Head(trs) IN
         IF Len(cells) # Len(headers)
         THEN section_rows(headers, Tail(trs))
         ELSE <<row_data(headers, cells)>> \o section_rows(headers, Tail(trs))

\* The body shared by the five section-table extractors of main.py.
parse_section_table(tbl, key) ==
    IF ~tbl.container THEN Ret(PyDict(Dict1(key, <<>>)))
    ELSE IF ~tbl.data_table THEN Ret(PyDict(Dict1(key, <<>>)))
    ELSE LET header_row == first_tr(tbl)
             headers == header_texts(header_row.ths)
         IN IF ~header_row.found THEN Ret(PyDict(Dict1(key, <<>>)))
            ELSE IF headers = <<>> THEN Ret(PyDict(Dict1(key, <<>>)))
            ELSE IF ~tbl.tbody THEN Ret(PyDict(Dict1(key, <<>>)))
            ELSE Ret(PyDict(Dict1(key, section_rows(headers, tbl.rows))))

parse_profit_loss_table(stock_symbol, soup) ==
    parse_section_table(soup.profit_loss, "profit_loss")

parse_balance_sheet_table(stock_symbol, soup) ==
    parse_section_table(soup.balance_sheet, "balance_sheet")

parse_quaterly_result_table(stock_symbol, soup) ==
    parse_section_table(soup.quarters, "quarterly_result")

shareholding_table(stock_symbol, soup) ==
    parse_section_table(soup.shareholding, "shareholding_result")

cashflow_table(stock_symbol, soup) ==
    parse_section_table(soup.cash_flow, "cashflow_result")

\* The rows of a table read without a cell-count check (parse_shareholder_table,
\* compare.py's peer table): headers[idx] for every cell, so a row longer
\* than the header list raises IndexError and a shorter one gives a mapping
\* with fewer keys.
RECURSIVE unchecked_rows(_, _)
unchecked_rows(headers, trs) ==
    IF trs = <<>> THEN Ret(PyList(<<>>))
    ELSE LET cells == Head(trs) IN
         IF Len(cells) > Len(headers) THEN Raise("IndexError")
         ELSE LET rest == unchecked_rows(headers, Tail(trs)) IN
              IF Raised(rest) THEN rest
              ELSE Ret(PyList(<<row_data(headers, cells)>> \o rest.val.l))

\* table.find("thead").find("tr").find_all("th") and table.find("tbody"):
\* a missing element is None, and a method call on None raises.
shareholder_rows(tbl) ==
    IF ~tbl.thead THEN Raise("AttributeError")
    ELSE IF ~tbl.head_tr THEN Raise("AttributeError")
    ELSE IF ~tbl.tbody THEN Raise("AttributeError")
    ELSE unchecked_rows(header_texts(tbl.headers), tbl.rows)

parse_shareholder_table(stock_symbol, soup) ==
    LET table == soup.quarterly_shp IN
    IF ~table.container THEN Ret(PyNone)
    ELSE LET rows == shareholder_rows(table) IN
         IF Raised(rows) THEN rows
         ELSE Ret(PyDict(Dict1("shareholder_data", rows.val.l)))

\* The variant of main-with-annual-data-scrape.py.
parse_shareholder_table_annual(stock_symbol, soup) ==
    LET table == soup.quarterly_shp IN
    IF ~table.container THEN Ret(PyNone)
    ELSE LET rows == shareholder_rows(table) IN
         IF Raised(rows) THEN rows
         ELSE Ret(PyDict([stock_symbol |-> stock_symbol, table_data |-> rows.val.l]))

NA == <<"N/A">>

\* {headers[i]: (cells[i] text if i < len(cells) else "N/A") for i in range(len(headers))}
padded_row(headers, cells) ==
    [h \in { headers[i] : i \in 1..Len(headers) } |->
        LET i == Max({ j \in 1..Len(headers) : headers[j] = h })
        IN IF i <= Len(cells) THEN cells[i] ELSE NA]

RECURSIVE peer_rows(_, _)
peer_rows(headers, trs) ==
    IF trs = <<>> THEN <<>>
    ELSE LET cells == Head(trs) IN
         IF Len(cells) = 0
         THEN peer_rows(headers, Tail(trs))
         ELSE <<padded_row(headers, cells)>> \o peer_rows(headers, Tail(trs))

parse_peer_comparision_table(stock_symbol, soup) ==
    LET tbl == soup.peers_placeholder
        key == "peer_comparision"
    IN
    IF ~tbl.container THEN Ret(PyDict(Dict1(key, <<>>)))
    ELSE IF ~tbl.data_table THEN Ret(PyDict(Dict1(key, <<>>)))
    ELSE LET header_row == first_tr(tbl)
             headers == header_texts(header_row.ths)
         IN IF ~header_row.found THEN Ret(PyDict(Dict1(key, <<>>)))
            ELSE IF headers = <<>> THEN Ret(PyDict(Dict1(key, <<>>)))
            ELSE IF ~tbl.tbody THEN Ret(PyDict(Dict1(key, <<>>)))
            ELSE Ret(PyDict(Dict1(key, peer_rows(headers, tbl.rows))))

\* As if a name already in items_dict kept its first value.
RECURSIVE top_ratio_items_first_wins(_)
top_ratio_items_first_wins(lis) ==
    IF lis = <<>> THEN EmptyDict
    ELSE LET li == lis[Len(lis)]
             before == top_ratio_items_first_wins(SubSeq(lis, 1, Len(lis) - 1))
         IN IF li.has_name /\ li.has_value
            THEN Merge(Dict1(get_text(li.name), get_text(li.value)), before)
            ELSE before

\* items_dict[key] = value for every <li> with both spans: the last
\* occurrence of a name wins.
RECURSIVE top_ratio_items(_)
top_ratio_items(lis) ==
    IF lis = <<>> THEN EmptyDict
    ELSE LET li == lis[Len(lis)]
             before == top_ratio_items(SubSeq(lis, 1, Len(lis) - 1))
         IN IF li.has_name /\ li.has_value
            THEN Merge(before, Dict1(get_text(li.name), get_text(li.value)))
            ELSE before

parse_ul_top_ratios(stock_symbol, soup) ==
    LET ul_element == soup.ul_top_ratios IN
    IF ~ul_element.container THEN Ret(PyNone)
    ELSE Ret(PyDict([stock_symbol |-> stock_symbol,
                     stock_details |-> top_ratio_items(ul_element.items)]))

(***************************************************************************)
(* The extractors of the single-fragment services.                         *)
(***************************************************************************)
Category == <<"Category">>

\* scrape_table_data's rows: the first cell goes under "Category", the cell
\* at position idx under headers[idx].
RECURSIVE category_rows(_, _)
category_rows(headers, trs) ==
    IF trs = <<>> THEN Ret(PyList(<<>>))
    ELSE LET cells == Head(trs) IN
         IF Len(cells) > Len(headers) THEN Raise("IndexError")
         ELSE LET rest == category_rows(headers, Tail(trs))
                  first == IF cells = <<>> THEN EmptyDict ELSE Dict1(Category, cells[1])
                  later == [h \in { headers[i] : i \in 2..Len(cells) } |->
                               cells[Max({ i \in 2..Len(cells) : headers[i] = h })]]
              IN IF Raised(rest) THEN rest
                 ELSE Ret(PyList(<<Merge(first, later)>> \o rest.val.l))

\* The parsing half of scrape_table_data (main-scarpe-table-data.py).
table_data_of(stock_symbol, soup) ==
    LET table == soup.quarterly_shp IN
    IF ~table.container THEN Raise("Exception")
    ELSE IF ~table.thead THEN Raise("AttributeError")
    ELSE IF ~table.head_tr THEN Raise("AttributeError")
    ELSE IF ~table.tbody THEN Raise("AttributeError")
    ELSE LET rows == category_rows(header_texts(table.headers), table.rows) IN
         IF Raised(rows) THEN rows
         ELSE Ret(PyDict([stock_symbol |-> stock_symbol, table_data |-> rows.val.l]))

UnknownYear == <<"Unknown Year">>
UnknownSource == <<"Unknown Source">>
UnknownLink == <<"Unknown Link">>

\* The parsing half of scrape_ul_data (main-scarpe-annual-data.py): every
\* <li> gives one entry, a missing link or source a placeholder text.
ul_entries(lis) ==
    [n \in 1..Len(lis) |->
        [financial_year |-> IF lis[n].has_name THEN get_text(lis[n].name) ELSE UnknownYear,
         source |-> IF lis[n].has_value THEN get_text(lis[n].value) ELSE UnknownSource,
         link |-> IF lis[n].has_name THEN lis[n].name ELSE UnknownLink]]

ul_data_of(stock_symbol, soup) ==
    LET ul == soup.list_links IN
    IF ~ul.container THEN Raise("Exception")
    ELSE Ret(PyDict([stock_symbol |-> stock_symbol, ul_data |-> ul_entries(ul.items)]))

RatioName == <<"Ratio Name">>

\* ratios_table's rows (main-with-selenium.py): rows without cells are
\* skipped, headers[idx] is read for every cell, and "Ratio Name" is added.
RECURSIVE ratio_rows(_, _)
ratio_rows(headers, trs) ==
    IF trs = <<>> THEN Ret(PyList(<<>>))
    ELSE LET cells == Head(trs)
             rest == ratio_rows(headers, Tail(trs))
         IN IF Len(cells) = 0 THEN rest
            ELSE IF Len(cells) > Len(headers) THEN Raise("IndexError")
            ELSE IF Raised(rest) THEN rest
            ELSE Ret(PyList(<<Merge(row_data(headers, cells), Dict1(RatioName, cells[1]))>>
                            \o rest.val.l))

\* Every failure inside the try block is caught and gives the empty fragment.
ratios_table(stock_symbol, soup) ==
    LET tbl == soup.ratios
        key == "ratios_result"
        empty == Ret(PyDict(Dict1(key, <<>>)))
    IN
    IF ~tbl.container THEN empty
    ELSE IF ~tbl.data_table THEN empty
    ELSE IF ~tbl.thead THEN empty               \* AttributeError, caught
    ELSE IF ~tbl.head_tr THEN empty
    ELSE LET headers == header_texts(tbl.headers) IN
         IF headers = <<>> THEN empty
         ELSE IF ~tbl.tbody THEN empty
         ELSE LET rows == ratio_rows(headers, tbl.rows) IN
              IF Raised(rows) THEN empty        \* IndexError, caught
              ELSE Ret(PyDict(Dict1(key, rows.val.l)))

\* parse_peer_comparison_table of the rendered page (main-with-selenium.py,
\* scrape.py): the headers are all <th> of the table.
parse_peer_comparison_table(stock_symbol, html_content) ==
    LET tbl == html_content.peers
        key == "peers"
        empty == Ret(PyDict(Dict1(key, <<>>)))
    IN
    IF ~tbl.container THEN empty
    ELSE IF ~tbl.data_table THEN empty
    ELSE LET headers == header_texts(tbl.headers) IN
         IF headers = <<>> THEN empty
         ELSE IF ~tbl.tbody THEN empty          \* AttributeError, caught
         ELSE Ret(PyDict(Dict1(key, section_rows(headers, tbl.rows))))

(***************************************************************************)
(* The request payload: stock_symbols.split(",") and, per token,           *)
(* strip().upper().                                                        *)
(***************************************************************************)
Range(f) == { f[i] : i \in DOMAIN f }

Min(S) == CHOOSE m \in S : \A x \in S : m <= x

\* str.split(","): always at least one token.
RECURSIVE Split(_)
Split(s) ==
    IF "," \notin Range(s) THEN <<s>>
    ELSE LET k == Min({ i \in 1..Len(s) : s[i] = "," })
         IN <<SubSeq(s, 1, k - 1)>> \o Split(SubSeq(s, k + 1, Len(s)))

UpperChar(c) == CASE c = "a" -> "A" [] c = "b" -> "B" [] OTHER -> c

Upper(s) == [i \in 1..Len(s) |-> UpperChar(s[i])]

\* [symbol.strip().upper() for symbol in payload.stock_symbols.split(",")]
normalized_symbols(payload) ==
    LET tokens == Split(payload)
    IN [i \in 1..Len(tokens) |-> Upper(Strip(tokens[i]))]

\* The tokens a caller writes between the commas.
Tokens == { <<>>, <<" ", "a">> }

RECURSIVE Join(_)
Join(toks) ==
    IF Len(toks) = 1 THEN toks[1] ELSE toks[1] \o <<",">> \o Join(Tail(toks))

Payloads == { Join(toks) : toks \in SeqsUpTo(Tokens, MaxSyms) \ { <<>> } }

\* The JSON list of /scrape-multiple-ul, taken as it is.
SymbolLists == SeqsUpTo(Tokens, MaxSyms)

(***************************************************************************)
(* The site: the pages a fetch may return.                                 *)
(***************************************************************************)
OneItem == ItemsOf(<<[has_name |-> TRUE, name |-> <<"x">>, has_value |-> TRUE]>>)
NoDateItem == ItemsOf(<<[has_name |-> FALSE, name |-> <<"x">>, has_value |-> TRUE]>>)

UlGood == [container |-> TRUE, items |-> OneItem]
UlNoDate == [container |-> TRUE, items |-> NoDateItem]

TableWith(hs, lens) ==
    [container |-> TRUE, data_table |-> TRUE, thead |-> TRUE, head_tr |-> TRUE,
     headers |-> hs, tbody |-> TRUE, rows |-> RowsOf(lens)]

ShpGood == TableWith(<< <<"x">>, <<"y">> >>, <<2>>)
ShpLong == TableWith(<< <<"x">> >>, <<2>>)
ShpNoThead ==
    [container |-> TRUE, data_table |-> TRUE, thead |-> FALSE, head_tr |-> FALSE,
     headers |-> <<>>, tbody |-> TRUE, rows |-> RowsOf(<<2>>)]
SecGood == TableWith(<< <<"x">>, <<"y">> >>, <<1, 2>>)

NoPage == SoupOf(NoTable, NoList)

\* A company page: the top-ratios / list-links list, the quarterly-shp table
\* and the section tables.
Page(ul, shp, sec) ==
    [NoPage EXCEPT !.ul_top_ratios = ul, !.list_links = ul, !.quarterly_shp = shp,
                   !.profit_loss = sec, !.balance_sheet = sec, !.quarters = sec,
                   !.shareholding = sec, !.cash_flow = sec,
                   !.peers_placeholder = sec, !.ratios = sec]

StaticPages ==
    { Page(UlGood, ShpGood, SecGood), Page(UlGood, ShpGood, NoTable),
      Page(NoList, ShpGood, SecGood), Page(UlGood, NoTable, SecGood),
      Page(NoList, NoTable, SecGood), Page(UlGood, ShpNoThead, SecGood),
      Page(UlGood, ShpLong, SecGood) }

\* The rendered page: the wait has seen the element with id "peers".
RenderedPages ==
    { [NoPage EXCEPT !.peers = SecGood],
      [NoPage EXCEPT !.peers = [NoTable EXCEPT !.container = TRUE]] }

\* The /consolidated/ page read for the document lists.
AuxPages ==
    { [NoPage EXCEPT !.annual_reports = UlGood, !.credit_ratings = UlGood,
                     !.concalls = UlGood],
      [NoPage EXCEPT !.annual_reports = UlGood, !.credit_ratings = UlGood,
                     !.concalls = UlNoDate] }

Statuses == { 200, 201, 404 }

NetErr == [kind |-> "neterr", status_code |-> 0, page |-> NoPage]
Http(code, page) == [kind |-> "http", status_code |-> code, page |-> page]

ResponsesWith(pages) ==
    { NetErr } \cup { Http(c, NoPage) : c \in Statuses \ { 200 } }
    \cup { Http(200, pg) : pg \in pages }

\* What a rendered fetch does: the page once the marker element is there,
\* the wait's timeout, or an error of the browser.
RenderOutcomes ==
    { [kind |-> "ok", page |-> pg] : pg \in RenderedPages }
    \cup { [kind |-> "timeout", page |-> NoPage], [kind |-> "error", page |-> NoPage] }

\* fetch_page(url): requests.get, then the parsed page on status 200, else
\* HTTPException(status_code=404).
fetch_page(response) ==
    IF response.kind = "neterr" THEN Raise("ConnectionError")
    ELSE IF response.status_code = 200 THEN Ret(response.page)
    ELSE RaiseCode("HTTPException", 404)

\* scrape_table_data(stock_symbol): the fetch and the parse.
scrape_table_data(stock_symbol, response) ==
    IF response.kind = "neterr" THEN Raise("ConnectionError")
    ELSE IF response.status_code = 200 THEN table_data_of(stock_symbol, response.page)
    ELSE RaiseCode("Exception", response.status_code)

\* scrape_ul_data(stock_symbol): the fetch and the parse.
scrape_ul_data(stock_symbol, response) ==
    IF response.kind = "neterr" THEN Raise("ConnectionError")
    ELSE IF response.status_code = 200 THEN ul_data_of(stock_symbol, response.page)
    ELSE RaiseCode("Exception", response.status_code)

Digits == { "0", "1", "2", "3", "4", "5", "6", "7", "8", "9" }

\* str.split(): the words between blanks.
RECURSIVE Words(_)
Words(s) ==
    LET t == LStrip(s) IN
    IF t = <<>> THEN <<>>
    ELSE IF " " \notin Range(t) THEN <<t>>
    ELSE LET k == Min({ i \in 1..Len(t) : t[i] = " " })
         IN <<SubSeq(t, 1, k - 1)>> \o Words(SubSeq(t, k, Len(t)))

\* next((word for word in year_text.split() if word.isdigit()), "Unknown Year")
year_of(text) ==
    LET ws == Words(text)
        hits == { i \in 1..Len(ws) : Range(ws[i]) \subseteq Digits }
    IN IF hits = {} THEN UnknownYear ELSE ws[Min(hits)]

absolute_url(link) ==
    IF link # <<>> /\ Head(link) = "/" THEN <<"https://www.bseindia.com">> \o link ELSE link

RECURSIVE report_links(_)
report_links(lis) ==
    IF lis = <<>> THEN <<>>
    ELSE LET li == Head(lis) IN
         IF li.has_name
         THEN <<[year |-> year_of(Strip(li.name)), url |-> absolute_url(li.value)]>>
              \o report_links(Tail(lis))
         ELSE report_links(Tail(lis))

\* scrape_annual_reports(url): every failure is caught and gives [].
scrape_annual_reports(response) ==
    IF response.kind = "neterr" THEN <<>>
    ELSE IF response.status_code # 200 THEN <<>>
    ELSE IF ~response.page.annual_reports.container THEN <<>>
    ELSE report_links(response.page.annual_reports.items)

RECURSIVE rating_links(_)
rating_links(lis) ==
    IF lis = <<>> THEN <<>>
    ELSE LET li == Head(lis) IN
         IF li.has_name /\ li.has_value
         THEN <<[date |-> Strip(li.value), url |-> li.name]>> \o rating_links(Tail(lis))
         ELSE rating_links(Tail(lis))

\* scrape_credit_ratings(url): every failure is caught and gives [].
scrape_credit_ratings(response) ==
    IF response.kind = "neterr" THEN <<>>
    ELSE IF response.status_code # 200 THEN <<>>
    ELSE IF ~response.page.credit_ratings.container THEN <<>>
    ELSE rating_links(response.page.credit_ratings.items)

\* scrape_concalls(url) has no try block: a network error propagates, and so
\* does the AttributeError of an item without its date element.
scrape_concalls(response) ==
    IF response.kind = "neterr" THEN Raise("ConnectionError")
    ELSE IF response.status_code # 200 THEN Ret(PyList(<<>>))
    ELSE IF ~response.page.concalls.container THEN Ret(PyList(<<>>))
    ELSE LET lis == response.page.concalls.items IN
         IF \E n \in 1..Len(lis) : ~lis[n].has_name THEN Raise("AttributeError")
         ELSE Ret(PyList([n \in 1..Len(lis) |->
                            [date |-> Strip(lis[n].name), notes |-> lis[n].value]]))

\* {**d1, **d2, ...}: unpacking anything but a mapping raises TypeError.
\* Of the mappings that hold a key, the last one gives its value.
unpack(parts) ==
    IF \E n \in 1..Len(parts) : parts[n].t # "dict" THEN Raise("TypeError")
    ELSE Ret(PyDict([k \in UNION { DOMAIN parts[n].d : n \in 1..Len(parts) } |->
                        parts[Max({ n \in 1..Len(parts) : k \in DOMAIN parts[n].d })].d[k]]))

(***************************************************************************)
(* The extractor harness: one parsed fragment, drawn from the bounded      *)
(* sets, is handed to one extractor.                                       *)
(***************************************************************************)
HarnessSymbol == <<"T">>

SectionExtractors ==
    { "parse_profit_loss_table", "parse_balance_sheet_table",
      "parse_quaterly_result_table", "shareholding_table", "cashflow_table" }

TableExtractors ==
    SectionExtractors \cup
    { "parse_peer_comparision_table", "parse_shareholder_table",
      "scrape_table_data", "ratios_table", "parse_peer_comparison_table" }

ListExtractors == { "parse_ul_top_ratios", "scrape_ul_data" }

Apply(fn, soup) ==
    CASE fn = "parse_profit_loss_table" -> parse_profit_loss_table(HarnessSymbol, soup)
      [] fn = "parse_balance_sheet_table" -> parse_balance_sheet_table(HarnessSymbol, soup)
      [] fn = "parse_quaterly_result_table" -> parse_quaterly_result_table(HarnessSymbol, soup)
      [] fn = "shareholding_table" -> shareholding_table(HarnessSymbol, soup)
      [] fn = "cashflow_table" -> cashflow_table(HarnessSymbol, soup)
      [] fn = "parse_peer_comparision_table" -> parse_peer_comparision_table(HarnessSymbol, soup)
      [] fn = "parse_shareholder_table" -> parse_shareholder_table(HarnessSymbol, soup)
      [] fn = "scrape_table_data" -> table_data_of(HarnessSymbol, soup)
      [] fn = "ratios_table" -> ratios_table(HarnessSymbol, soup)
      [] fn = "parse_peer_comparison_table" -> parse_peer_comparison_table(HarnessSymbol, soup)
      [] fn = "parse_ul_top_ratios" -> parse_ul_top_ratios(HarnessSymbol, soup)
      [] fn = "scrape_ul_data" -> ul_data_of(HarnessSymbol, soup)

\* The key under which an extractor returns its rows.
RowsKey(fn) ==
    CASE fn = "parse_profit_loss_table" -> "profit_loss"
      [] fn = "parse_balance_sheet_table" -> "balance_sheet"
      [] fn = "parse_quaterly_result_table" -> "quarterly_result"
      [] fn = "shareholding_table" -> "shareholding_result"
      [] fn = "cashflow_table" -> "cashflow_result"
      [] fn = "parse_peer_comparision_table" -> "peer_comparision"
      [] fn = "parse_shareholder_table" -> "shareholder_data"
      [] fn = "scrape_table_data" -> "table_data"
      [] fn = "ratios_table" -> "ratios_result"
      [] fn = "parse_peer_comparison_table" -> "peers"

NotApplied == [fn |-> "", res |-> Ret(PyNone)]
NoInput == [tbl |-> NoTable, ul |-> NoList]
NoRun == [endpoint |-> "", status |-> "idle"]
NoFault == [pos |-> 0, leg |-> ""]

InitExtract ==
    /\ input \in { [tbl |-> t, ul |-> NoList] : t \in Tables }
                 \cup { [tbl |-> NoTable, ul |-> l] : l \in Lists }
    /\ out = NotApplied
    /\ run = NoRun
    /\ twin = NoRun
    /\ fault = NoFault

ExtractTable ==
    /\ out = NotApplied
    /\ input.ul = NoList
    /\ \E fn \in TableExtractors :
          out' = [fn |-> fn, res |-> Apply(fn, SoupOf(input.tbl, input.ul))]
    /\ UNCHANGED <<input, run, twin, fault>>

ExtractList ==
    /\ out = NotApplied
    /\ input.tbl = NoTable
    /\ \E fn \in ListExtractors :
          out' = [fn |-> fn, res |-> Apply(fn, SoupOf(input.tbl, input.ul))]
    /\ UNCHANGED <<input, run, twin, fault>>

NextExtract == ExtractTable \/ ExtractList

SpecExtract == InitExtract /\ [][NextExtract]_vars

(***************************************************************************)
(* Properties of the extractors (checked under SpecExtract).               *)
(***************************************************************************)
Applied(fns) == out.fn \in fns

\* The header texts of the input table and its body rows with as many cells
\* as headers.
InHeaders == header_texts(input.tbl.headers)
WellFormedRows == SelectSeq(input.tbl.rows, LAMBDA cells : Len(cells) = Len(InHeaders))

\* The rows an applied table extractor returned.
Emitted == out.res.val.d[RowsKey(out.fn)]

ReturnedRows ==
    /\ ~Raised(out.res)
    /\ out.res.val.t = "dict"
    /\ RowsKey(out.fn) \in DOMAIN out.res.val.d

LastPosition(i) == \A j \in (i + 1)..Len(InHeaders) : InHeaders[j] # InHeaders[i]

\* C4 (as stated): a section-table extractor, on a table with a non-empty
\* header list, returns exactly the body rows whose cell count equals the
\* header count, in order, each mapping header[i] to cell[i] for every i.
C4_SectionRowsAllPositions ==
    (Applied(SectionExtractors) /\ InHeaders # <<>>) =>
        /\ ReturnedRows
        /\ Len(Emitted) = Len(WellFormedRows)
        /\ \A k \in 1..Len(Emitted) :
              /\ DOMAIN Emitted[k] = { InHeaders[i] : i \in 1..Len(InHeaders) }
              /\ \A i \in 1..Len(InHeaders) :
                    Emitted[k][InHeaders[i]] = WellFormedRows[k][i]

\* C4 (amended): as above, but header[i] maps to cell[i] for the positions i
\* whose header text does not occur again at a later position; a repeated
\* header text keeps the cell of its last position.
C4_SectionRows ==
    (Applied(SectionExtractors) /\ InHeaders # <<>>) =>
        /\ ReturnedRows
        /\ Len(Emitted) = Len(WellFormedRows)
        /\ \A k \in 1..Len(Emitted) :
              /\ DOMAIN Emitted[k] = { InHeaders[i] : i \in 1..Len(InHeaders) }
              /\ \A i \in 1..Len(InHeaders) :
                    LastPosition(i) => Emitted[k][InHeaders[i]] = WellFormedRows[k][i]

\* C4 witness: a section extractor ran on a table that has a well-formed
\* row after a malformed one, and returned one row.
C4_Witness ==
    /\ Applied(SectionExtractors)
    /\ Len(InHeaders) = 2
    /\ Len(input.tbl.rows) = 2
    /\ Len(input.tbl.rows[1]) # 2
    /\ Len(input.tbl.rows[2]) = 2
    /\ ReturnedRows
    /\ Len(Emitted) = 1

\* C5: every row a table extractor emits comes from a body row whose cell
\* count equals the header count: no more rows are emitted than there are
\* such rows, none is padded with a placeholder and none lacks a header.
C5_OnlyWellFormedRowsEmitted ==
    (Applied(TableExtractors) /\ ReturnedRows) =>
        /\ Len(Emitted) <= Len(WellFormedRows)
        /\ \A k \in 1..Len(Emitted) :
              /\ \A h \in DOMAIN Emitted[k] : Emitted[k][h] # NA
              /\ Cardinality(DOMAIN Emitted[k])
                    >= Cardinality({ InHeaders[i] : i \in 1..Len(InHeaders) })

\* Whether the input lacks the container of the applied extractor, or an
\* inner part of it.
LacksPart ==
    \/ Applied(TableExtractors) /\ ( \/ ~input.tbl.container
                                     \/ ~input.tbl.data_table
                                     \/ ~input.tbl.thead
                                     \/ ~input.tbl.tbody )
    \/ Applied(ListExtractors) /\ ~input.ul.container

\* An Empty result: None, or the fragment key with no rows.
IsEmpty(res) ==
    /\ ~Raised(res)
    /\ \/ res.val.t = "None"
       \/ /\ res.val.t = "dict"
          /\ \A k \in DOMAIN res.val.d : res.val.d[k] = <<>>

\* C6: an extractor applied to a page that lacks its container (or the
\* table, thead or tbody in it) returns Empty and does not raise.
C6_AbsentGivesEmpty == LacksPart => IsEmpty(out.res)

(***************************************************************************)
(* The batch endpoints. A call (run) holds the requested symbols, a        *)
(* position (pc) and the locals of every symbol's pipeline, the outcomes   *)
(* and the store.                                                          *)
(*   "main"       main.py                       POST /scrape-all-data      *)
(*   "selenium"   main-with-selenium.py         POST /scrape-all-datas     *)
(*   "table"      main-scarpe-table-data.py     POST /scrape-multiple-stocks *)
(*   "shp"        main-with-annual-data-scrape.py POST /scrape-shareholder-data *)
(*   "annual_ul"  main-scarpe-annual-data.py    POST /scrape-multiple-ul   *)
(*   "compare"    compare.py                    POST /scrape-all-data      *)
(***************************************************************************)
Endpoints == { "main", "selenium", "table", "shp", "annual_ul", "compare" }

\* The endpoints whose loop awaits each pipeline and appends its outcome.
LoopEndpoints == { "main", "annual_ul", "compare" }

\* The endpoints that hand coroutines to asyncio.gather.
GatherEndpoints == { "table", "shp" }

\* A pipeline waits in one of these for a fetch it has issued.
FetchPhases == { "render", "static", "annual", "credit", "concalls" }

SavedMsg == "Data scraped and saved successfully."
NoShareholderMsg == "No shareholder table found."
NoTableMsg == "No table found with id 'quarterly-shp'."
NoDataMsg == "No data found to scrape."

Message(sym, msg) == [stock_symbol |-> sym, message |-> msg, exc |-> "", code |-> 0]
Failure(sym, exc, code) == [stock_symbol |-> sym, message |-> "", exc |-> exc, code |-> code]
NoOutcome == [stock_symbol |-> <<>>, message |-> "", exc |-> "", code |-> 0]

\* The URL templates of the static requests.
PageUrl == "https://www.screener.in/company/{stock_symbol}/"
ConsolidatedUrl == "https://www.screener.in/company/{stock_symbol}/consolidated/"

NoLocal ==
    [soup |-> NoPage, fetched |-> FALSE, rendered |-> "", peer_data |-> PyList(<<>>),
     session |-> "",            \* what the session was when driver.get was called
     response |-> [kind |-> "", status_code |-> 0],     \* what requests.get gave
     aux |-> [kind |-> "", status_code |-> 0, page |-> NoPage],
                                \* what the last /consolidated/ request gave
     gets |-> <<>>,             \* the URLs given to requests.get so far
     annual_reports_data |-> <<>>, credit_ratings_data |-> <<>>,
     combined_data |-> EmptyDict]

InitRun(e, syms) ==
    [endpoint |-> e,
     tokens |-> syms,           \* the caller's list as it came
     stock_symbols |-> syms,
     pc |-> [i \in 1..Len(syms) |-> "pending"],
     local |-> [i \in 1..Len(syms) |-> NoLocal],
     task_result |-> [i \in 1..Len(syms) |-> NoOutcome],
     results |-> <<>>,
     store |-> <<>>,
     driver |-> "none",
     status |-> "running",
     raised |-> ""]

Positions(r) == 1..Len(r.stock_symbols)

\* As if the loop went on to the next symbol without sleeping.
finish_unpaced(r, i, outcome) ==
    IF r.endpoint \in LoopEndpoints
    THEN [r EXCEPT !.results = Append(@, outcome), !.pc[i] = "done"]
    ELSE [r EXCEPT !.task_result[i] = outcome, !.pc[i] = "done"]

\* The pipeline returns its outcome: the sequential loops append it to
\* results (main.py then sleeps), a task or a gather argument keeps it.
finish(r, i, outcome) ==
    LET done == [r EXCEPT !.local[i].annual_reports_data = <<>>,
                          !.local[i].credit_ratings_data = <<>>,
                          !.local[i].combined_data = EmptyDict]
    IN CASE r.endpoint \in { "main", "compare" } ->
              [done EXCEPT !.results = Append(@, outcome), !.pc[i] = "sleep"]
         [] r.endpoint = "annual_ul" ->
              [done EXCEPT !.results = Append(@, outcome), !.pc[i] = "done"]
         [] OTHER ->
              [done EXCEPT !.task_result[i] = outcome, !.pc[i] = "done"]

\* The exception leaves the pipeline and the endpoint with it.
uncaught(r, i, res) == [r EXCEPT !.status = "raised", !.raised = res.exc]

\* except Exception as e: return {"stock_symbol": stock_symbol, "error": str(e)}
caught(r, i, res) == finish(r, i, Failure(r.stock_symbols[i], res.exc, res.code))

\* As if the fetch were awaited: the loop is free to start another task.
LoopFree_awaited(r) == TRUE

\* The event loop runs one task at a time, and no pipeline awaits anything:
\* a task runs from its start to its return before the next one starts.
LoopFree(r) == \A j \in Positions(r) : r.pc[j] \in { "pending", "done" }

\* Whether pipeline i is the next to start.
CanStart(r, i) ==
    /\ r.status = "running"
    /\ i \in Positions(r)
    /\ r.pc[i] = "pending"
    /\ \A j \in 1..(i - 1) : r.pc[j] # "pending"
    /\ IF r.endpoint \in GatherEndpoints
       THEN LoopFree(r)
       ELSE \A j \in 1..(i - 1) : r.pc[j] = "done"
    /\ r.endpoint = "selenium" => r.driver # "none"

\* The pipeline starts and issues its first fetch. In main-with-selenium.py
\* that is driver.get, which raises at once on a session that was quit; the
\* exception is caught, the driver quit again and the static fetch issued.
start(r, i) ==
    IF r.endpoint = "selenium"
    THEN IF r.driver = "open"
         THEN [r EXCEPT !.pc[i] = "render", !.local[i].session = "open"]
         ELSE [r EXCEPT !.pc[i] = "static", !.local[i].gets = Append(@, PageUrl), !.local[i].rendered = "failed",
                        !.local[i].session = r.driver, !.driver = "quit"]
    ELSE [r EXCEPT !.pc[i] = "static", !.local[i].gets = Append(@, PageUrl)]

\* As if driver.quit() stood at the end of the try block, not in a finally.
render_return_leaking(r, i, outcome) ==
    IF outcome.kind = "ok"
    THEN [r EXCEPT !.local[i].peer_data =
                       parse_peer_comparison_table(r.stock_symbols[i], outcome.page).val,
                   !.local[i].rendered = "ok",
                   !.driver = "quit", !.pc[i] = "static", !.local[i].gets = Append(@, PageUrl)]
    ELSE [r EXCEPT !.local[i].rendered = "failed", !.pc[i] = "static", !.local[i].gets = Append(@, PageUrl)]

\* As if the rendered leg wrote its fragment to the collection on its own
\* (the insert_one that main-with-selenium.py has commented out).
render_return_saving(r, i, outcome) ==
    IF outcome.kind = "ok"
    THEN LET peer_data == parse_peer_comparison_table(r.stock_symbols[i], outcome.page).val
         IN [r EXCEPT !.local[i].peer_data = peer_data,
                      !.local[i].rendered = "ok",
                      !.store = Append(@, peer_data.d),
                      !.driver = "quit", !.pc[i] = "static", !.local[i].gets = Append(@, PageUrl)]
    ELSE [r EXCEPT !.local[i].rendered = "failed",
                   !.driver = "quit", !.pc[i] = "static", !.local[i].gets = Append(@, PageUrl)]

\* The rendered fetch ends: the peers table of the page, or peer_data stays
\* [] on a timeout or error; finally the driver is quit.
render_return(r, i, outcome) ==
    IF outcome.kind = "ok"
    THEN [r EXCEPT !.local[i].peer_data =
                       parse_peer_comparison_table(r.stock_symbols[i], outcome.page).val,
                   !.local[i].rendered = "ok",
                   !.driver = "quit", !.pc[i] = "static", !.local[i].gets = Append(@, PageUrl)]
    ELSE [r EXCEPT !.local[i].rendered = "failed",
                   !.driver = "quit", !.pc[i] = "static", !.local[i].gets = Append(@, PageUrl)]

\* if data: insert_one(data), for the pipelines with one fragment.
save_or_report(r, i, data, missing) ==
    IF Raised(data) THEN caught(r, i, data)
    ELSE IF Truthy(data.val)
    THEN [r EXCEPT !.local[i].combined_data = data.val.d, !.pc[i] = "persist"]
    ELSE finish(r, i, Message(r.stock_symbols[i], missing))

\* compare.py's fetch_page: raise_for_status() raises for the 4xx and 5xx
\* status codes only, and every requests exception becomes HTTPException 500.
compare_fetch_page(response) ==
    IF response.kind = "neterr" THEN RaiseCode("HTTPException", 500)
    ELSE IF response.status_code >= 400 THEN RaiseCode("HTTPException", 500)
    ELSE Ret(response.page)

\* compare.py's extractors return {} for an absent element, and read their
\* tables without a cell-count check.
compare_top_ratios(stock_symbol, soup) ==
    LET ul_element == soup.ul_top_ratios IN
    IF ~ul_element.container THEN Ret(PyDict(EmptyDict))
    ELSE Ret(PyDict([stock_symbol |-> stock_symbol,
                     stock_details |-> top_ratio_items(ul_element.items)]))

compare_table(table, key) ==
    IF ~table.container THEN Ret(PyDict(EmptyDict))
    ELSE LET rows == shareholder_rows(table) IN
         IF Raised(rows) THEN rows
         ELSE Ret(PyDict(Dict1(key, rows.val.l)))

\* The fragments of the pipeline at position i in the order of the merge
\* (a raising extractor gives None here; the pipeline has ended before).
fragments(r, i) ==
    LET sym == r.stock_symbols[i]
        soup == r.local[i].soup
    IN CASE r.endpoint = "main" ->
              << parse_ul_top_ratios(sym, soup).val,
                 parse_shareholder_table(sym, soup).val,
                 parse_profit_loss_table(sym, soup).val,
                 parse_balance_sheet_table(sym, soup).val,
                 parse_quaterly_result_table(sym, soup).val,
                 parse_peer_comparision_table(sym, soup).val,
                 shareholding_table(sym, soup).val,
                 cashflow_table(sym, soup).val >>
         [] r.endpoint = "selenium" ->
              << parse_ul_top_ratios(sym, soup).val,
                 parse_shareholder_table(sym, soup).val,
                 parse_profit_loss_table(sym, soup).val,
                 parse_balance_sheet_table(sym, soup).val,
                 parse_quaterly_result_table(sym, soup).val,
                 shareholding_table(sym, soup).val,
                 cashflow_table(sym, soup).val,
                 ratios_table(sym, soup).val,
                 r.local[i].peer_data >>
         [] r.endpoint = "compare" ->
              << PyDict(Dict1("stock_symbol", sym)),
                 compare_top_ratios(sym, soup).val,
                 compare_table(soup.quarterly_shp, "shareholder").val,
                 compare_table(soup.peers_placeholder, "peer_comparision").val >>

\* compare.py's scrape_and_save after the fetch: the three extractors, the
\* merge under the literal stock_symbol key, and the write.
compare_combine(r, i) ==
    LET sym == r.stock_symbols[i]
        soup == r.local[i].soup
        details_data == compare_top_ratios(sym, soup)
        shareholder_data == compare_table(soup.quarterly_shp, "shareholder")
        peer_comparision_data == compare_table(soup.peers_placeholder, "peer_comparision")
    IN
    IF Raised(shareholder_data) THEN caught(r, i, shareholder_data)
    ELSE IF Raised(peer_comparision_data) THEN caught(r, i, peer_comparision_data)
    ELSE IF \/ Truthy(details_data.val) \/ Truthy(shareholder_data.val)
            \/ Truthy(peer_comparision_data.val)
    THEN [r EXCEPT !.local[i].combined_data = unpack(fragments(r, i)).val.d,
                   !.pc[i] = "persist"]
    ELSE finish(r, i, Message(sym, NoDataMsg))

\* The static fetch ends.
static_return(run0, i, response) ==
    LET r == [run0 EXCEPT !.local[i].response =
                              [kind |-> response.kind, status_code |-> response.status_code]]
        sym == r.stock_symbols[i]
        got == [r EXCEPT !.local[i].soup = response.page, !.local[i].fetched = TRUE]
    IN
    CASE r.endpoint \in { "main", "selenium" } ->
           LET page == fetch_page(response) IN
           IF Raised(page) THEN caught(r, i, page)
           ELSE LET shareholder_data == parse_shareholder_table(sym, page.val) IN
                IF Raised(shareholder_data) THEN caught(got, i, shareholder_data)
                ELSE [got EXCEPT !.pc[i] = "annual", !.local[i].gets = Append(@, ConsolidatedUrl)]
      [] r.endpoint = "shp" ->
           LET page == fetch_page(response) IN
           IF Raised(page) THEN caught(r, i, page)
           ELSE save_or_report(got, i, parse_shareholder_table_annual(sym, page.val),
                               NoShareholderMsg)
      [] r.endpoint = "table" ->
           save_or_report(IF response.kind = "http" /\ response.status_code = 200
                          THEN got ELSE r,
                          i, scrape_table_data(sym, response), NoTableMsg)
      [] r.endpoint = "annual_ul" ->
           save_or_report(IF response.kind = "http" /\ response.status_code = 200
                          THEN got ELSE r,
                          i, scrape_ul_data(sym, response), "")
      [] r.endpoint = "compare" ->
           LET page == compare_fetch_page(response) IN
           IF Raised(page) THEN caught(r, i, page)
           ELSE compare_combine(got, i)

\* As if the merged document carried something of the run it was made in
\* (here the position in the batch), like the _id a write adds.
combine_positional(r, i, extra) ==
    [r EXCEPT !.local[i].combined_data =
                  [stock_symbol |-> r.stock_symbols[i], stock_details |-> <<>>,
                   shareholder_data |-> <<>>, profit_loss |-> <<>>, balance_sheet |-> <<>>,
                   quarterly_result |-> <<>>, peer_comparision |-> <<>>,
                   shareholding_result |-> <<>>, cashflow_result |-> <<>>,
                   annual_reports |-> <<>>, made_at |-> i],
              !.pc[i] = "persist"]

\* if details_data or shareholder_data: combined_data = {**..., ...}
combine(r, i, extra) ==
    LET sym == r.stock_symbols[i]
        soup == r.local[i].soup
        details_data == parse_ul_top_ratios(sym, soup).val
        shareholder_data == parse_shareholder_table(sym, soup).val
        combined_data == unpack(fragments(r, i))
    IN
    IF Truthy(details_data) \/ Truthy(shareholder_data)
    THEN IF Raised(combined_data) THEN caught(r, i, combined_data)
         ELSE [r EXCEPT !.local[i].combined_data = Merge(combined_data.val.d, extra),
                        !.pc[i] = "persist"]
    ELSE finish(r, i, Message(sym, NoShareholderMsg))

\* A fetch of the /consolidated/ page ends.
aux_return(r, i, response) ==
    CASE r.pc[i] = "annual" /\ r.endpoint = "main" ->
           combine([r EXCEPT !.local[i].aux = response], i,
                   Dict1("annual_reports", scrape_annual_reports(response)))
      [] r.pc[i] = "annual" /\ r.endpoint = "selenium" ->
           [r EXCEPT !.local[i].annual_reports_data = scrape_annual_reports(response),
                     !.pc[i] = "credit", !.local[i].gets = Append(@, ConsolidatedUrl)]
      [] r.pc[i] = "credit" ->
           [r EXCEPT !.local[i].credit_ratings_data = scrape_credit_ratings(response),
                     !.pc[i] = "concalls", !.local[i].gets = Append(@, ConsolidatedUrl)]
      [] r.pc[i] = "concalls" ->
           LET scrape_concalls_data == scrape_concalls(response)
               r1 == [r EXCEPT !.local[i].aux = response]
           IN
           IF Raised(scrape_concalls_data) THEN caught(r1, i, scrape_concalls_data)
           ELSE combine(r1, i,
                        [annual_reports |-> r.local[i].annual_reports_data,
                         credit_ratings |-> r.local[i].credit_ratings_data,
                         scrape_concalls |-> scrape_concalls_data.val.l])

\* As if insert_one stood outside the try block: its exception leaves the
\* endpoint.
persist_return_aborting(r, i, ok) ==
    IF ok
    THEN finish([r EXCEPT !.store = Append(@, r.local[i].combined_data)], i,
                Message(r.stock_symbols[i],
                        IF r.endpoint = "annual_ul" THEN "success" ELSE SavedMsg))
    ELSE uncaught(r, i, Raise("PyMongoError"))

\* As if the success were returned whether or not the write went through.
persist_return_unwritten(r, i, ok) ==
    finish(IF ok THEN [r EXCEPT !.store = Append(@, r.local[i].combined_data)] ELSE r, i,
           Message(r.stock_symbols[i],
                   IF r.endpoint = "annual_ul" THEN "success" ELSE SavedMsg))

\* collection.insert_one(data) ends: the document is added to the
\* collection, or the driver raises.
persist_return(r, i, ok) ==
    LET sym == r.stock_symbols[i] IN
    IF ok
    THEN finish([r EXCEPT !.store = Append(@, r.local[i].combined_data)], i,
                Message(sym, IF r.endpoint = "annual_ul" THEN "success" ELSE SavedMsg))
    ELSE caught(r, i, Raise("PyMongoError"))

\* As if the outcomes were collected last pipeline first.
endpoint_return_reversed(r) ==
    LET Reverse(s) == [i \in 1..Len(s) |-> s[Len(s) + 1 - i]] IN
    IF r.endpoint \in GatherEndpoints
    THEN [r EXCEPT !.results = Reverse(r.task_result), !.status = "returned"]
    ELSE [r EXCEPT !.results = Reverse(r.results), !.status = "returned"]

\* The endpoint ends once every pipeline has: the loops return results,
\* gather returns the tasks' results in the order of its arguments, and in
\* main-with-selenium.py gather is handed the dicts the pipelines returned,
\* raises TypeError for the first of them, and the driver is quit.
endpoint_return(r) ==
    CASE r.endpoint \in GatherEndpoints ->
           [r EXCEPT !.results = r.task_result, !.status = "returned"]
      [] r.endpoint = "selenium" ->
           IF r.stock_symbols = <<>>
           THEN [r EXCEPT !.driver = "quit", !.status = "returned"]
           ELSE [r EXCEPT !.driver = "quit", !.status = "raised", !.raised = "TypeError"]
      [] OTHER -> [r EXCEPT !.status = "returned"]

(***************************************************************************)
(* Actions. The twin, when there is one, takes every step the run takes,   *)
(* with the same answers from the site, the browser and the database,      *)
(* except that the fetch named by fault fails with a network error.        *)
(***************************************************************************)
TwinAt(i, phases) ==
    /\ fault.pos # 0
    /\ twin.status = "running"
    /\ twin.pc[i] \in phases

Faulty(i, leg) == fault.pos = i /\ fault.leg = leg

\* webdriver.Chrome(options=options), before any pipeline runs.
OpenDriver ==
    /\ run.status = "running"
    /\ run.endpoint = "selenium"
    /\ run.driver = "none"
    /\ \E ok \in BOOLEAN :
          LET opened(r) == IF ok THEN [r EXCEPT !.driver = "open"]
                           ELSE [r EXCEPT !.status = "raised",
                                          !.raised = "WebDriverException"]
          IN /\ run' = opened(run)
             /\ twin' = IF fault.pos # 0 THEN opened(twin) ELSE twin
    /\ UNCHANGED <<input, out, fault>>

Start ==
    /\ \E i \in Positions(run) :
          /\ CanStart(run, i)
          /\ run' = start(run, i)
          /\ twin' = IF fault.pos # 0 /\ CanStart(twin, i) THEN start(twin, i) ELSE twin
    /\ UNCHANGED <<input, out, fault>>

RenderReturn ==
    /\ run.status = "running"
    /\ \E i \in Positions(run), outcome \in RenderOutcomes :
          /\ run.pc[i] = "render"
          /\ run' = render_return(run, i, outcome)
          /\ twin' = IF TwinAt(i, { "render" })
                     THEN render_return(twin, i,
                                        IF Faulty(i, "render")
                                        THEN [kind |-> "error", page |-> NoPage]
                                        ELSE outcome)
                     ELSE twin
    /\ UNCHANGED <<input, out, fault>>

StaticReturn ==
    /\ run.status = "running"
    /\ \E i \in Positions(run), response \in ResponsesWith(StaticPages) :
          /\ run.pc[i] = "static"
          /\ run' = static_return(run, i, response)
          /\ twin' = IF TwinAt(i, { "static" })
                     THEN static_return(twin, i,
                                        IF Faulty(i, "static") THEN NetErr ELSE response)
                     ELSE twin
    /\ UNCHANGED <<input, out, fault>>

AuxReturn ==
    /\ run.status = "running"
    /\ \E i \in Positions(run), response \in ResponsesWith(AuxPages) :
          /\ run.pc[i] \in { "annual", "credit", "concalls" }
          /\ run' = aux_return(run, i, response)
          /\ twin' = IF TwinAt(i, { run.pc[i] })
                     THEN aux_return(twin, i,
                                     IF Faulty(i, run.pc[i]) THEN NetErr ELSE response)
                     ELSE twin
    /\ UNCHANGED <<input, out, fault>>

PersistReturn ==
    /\ run.status = "running"
    /\ \E i \in Positions(run), ok \in BOOLEAN :
          /\ run.pc[i] = "persist"
          /\ run' = persist_return(run, i, ok)
          /\ twin' = IF TwinAt(i, { "persist" }) THEN persist_return(twin, i, ok) ELSE twin
    /\ UNCHANGED <<input, out, fault>>

\* await asyncio.sleep(5) ends.
SleepDone ==
    /\ run.status = "running"
    /\ \E i \in Positions(run) :
          /\ run.pc[i] = "sleep"
          /\ run' = [run EXCEPT !.pc[i] = "done"]
          /\ twin' = IF TwinAt(i, { "sleep" }) THEN [twin EXCEPT !.pc[i] = "done"] ELSE twin
    /\ UNCHANGED <<input, out, fault>>

AllDone(r) ==
    /\ r.status = "running"
    /\ \A i \in Positions(r) : r.pc[i] = "done"
    /\ r.endpoint = "selenium" => r.driver # "none"

Return ==
    /\ AllDone(run)
    /\ run' = endpoint_return(run)
    /\ twin' = IF fault.pos # 0 /\ AllDone(twin) THEN endpoint_return(twin) ELSE twin
    /\ UNCHANGED <<input, out, fault>>

Next ==
    \/ OpenDriver
    \/ Start
    \/ RenderReturn
    \/ StaticReturn
    \/ AuxReturn
    \/ PersistReturn
    \/ SleepDone
    \/ Return

\* The requests an endpoint may get.
Requests ==
    { [InitRun(e, normalized_symbols(p)) EXCEPT !.tokens = Split(p)] :
         e \in Endpoints \ { "annual_ul" }, p \in Payloads }
    \cup { InitRun("annual_ul", syms) : syms \in SymbolLists }

Init ==
    /\ input = NoInput
    /\ out = NotApplied
    /\ run \in Requests
    /\ twin = NoRun
    /\ fault = NoFault

Spec == Init /\ [][Next]_vars

\* The run under the proviso that what is waited for comes: every fetch
\* returns or fails, every rendered wait ends, every write and every sleep
\* ends, and the event loop goes on to the step that is ready.
SpecLive ==
    /\ Init
    /\ [][Next]_vars
    /\ WF_vars(OpenDriver)
    /\ WF_vars(Start)
    /\ WF_vars(RenderReturn)
    /\ WF_vars(StaticReturn)
    /\ WF_vars(AuxReturn)
    /\ WF_vars(PersistReturn)
    /\ WF_vars(SleepDone)
    /\ WF_vars(Return)

\* The fetches of a pipeline of the endpoint.
Legs(e) ==
    CASE e = "main" -> { "static", "annual" }
      [] e = "selenium" -> { "render", "static", "annual", "credit", "concalls" }
      [] OTHER -> { "static" }

\* The run and its twin: the same request, and one fetch of one symbol that
\* fails in the twin.
InitIso ==
    /\ input = NoInput
    /\ out = NotApplied
    /\ run \in Requests
    /\ twin = run
    /\ fault \in { [pos |-> i, leg |-> l] : i \in Positions(run), l \in Legs(run.endpoint) }

SpecIso == InitIso /\ [][Next]_vars

(***************************************************************************)
(* Properties of the batch endpoints.                                      *)
(***************************************************************************)
\* The outcome recorded for the symbol at position i, NoOutcome before.
Outcome(r, i) ==
    IF r.endpoint \in LoopEndpoints
    THEN IF i <= Len(r.results) THEN r.results[i] ELSE NoOutcome
    ELSE r.task_result[i]

Ended(r, i) == r.pc[i] \in { "sleep", "done" }

Saved(o) == o.message \in { SavedMsg, "success" }

\* The places of the store that hold a document of the symbol.
DocsFor(r, sym) ==
    { k \in 1..Len(r.store) :
        "stock_symbol" \in DOMAIN r.store[k] /\ r.store[k].stock_symbol = sym }

NoDoc == [none |-> TRUE]

\* The document the pipeline at position i has written: pipelines write in
\* the order of their positions, and each at most once.
DocOf(r, i) ==
    IF Saved(Outcome(r, i))
    THEN r.store[Cardinality({ j \in 1..i : Saved(Outcome(r, j)) })]
    ELSE NoDoc

\* C1: every batch endpoint returns a results list with exactly one outcome
\* per requested symbol, in every combination of failures of the symbols'
\* fetches, parses, renders and writes, and no exception escapes the call
\* (the browser failing to start, before any symbol is processed, aside).
C1_OneOutcomePerSymbol ==
    /\ run.status = "raised" => run.raised = "WebDriverException"
    /\ run.status = "returned" =>
          /\ Len(run.results) = Len(run.stock_symbols)
          /\ \A i \in Positions(run) : run.results[i].stock_symbol = run.stock_symbols[i]

\* C2: a run and its twin that differs only in one failing fetch of one
\* symbol: at every moment the pipelines of all other positions are at the
\* same point with the same outcome and the same written document, and the
\* twin goes on and ends as the run does.
C2_Isolation ==
    fault.pos # 0 =>
       /\ twin.status = run.status
       /\ \A j \in Positions(run) \ { fault.pos } :
             /\ twin.pc[j] = run.pc[j]
             /\ Outcome(twin, j) = Outcome(run, j)
             /\ DocOf(twin, j) = DocOf(run, j)

\* Both symbols of a batch saved in the run; in the twin the first one's
\* fetch failed and the second one was saved all the same.
C2_Witness ==
    /\ fault.pos = 1
    /\ Len(run.stock_symbols) = 2
    /\ run.status = "returned"
    /\ twin.status = "returned"
    /\ Saved(Outcome(run, 1))
    /\ Outcome(twin, 1).exc = "ConnectionError"
    /\ Saved(Outcome(twin, 2))
    /\ DocOf(twin, 2) # NoDoc

\* C3: after one or more successful pipelines for a symbol on identical
\* markup, the store holds exactly one document of that symbol.
C3_OneDocumentPerSymbol ==
    \A i \in Positions(run) :
       LET sym == run.stock_symbols[i]
           ok == { j \in Positions(run) : run.stock_symbols[j] = sym /\ Saved(Outcome(run, j)) }
       IN (/\ i \in ok
           /\ \A j \in ok : run.local[j].soup = run.local[i].soup
           /\ \A j \in ok : DocOf(run, j) = DocOf(run, i))
          => Cardinality(DocsFor(run, sym)) = 1

\* The fragments of main.py's pipeline read from the company page: the
\* element of the page and the key of the document.
MainFragments ==
    { <<"ul_top_ratios", "stock_details">>, <<"quarterly_shp", "shareholder_data">>,
      <<"profit_loss", "profit_loss">>, <<"balance_sheet", "balance_sheet">>,
      <<"quarters", "quarterly_result">>, <<"peers_placeholder", "peer_comparision">>,
      <<"shareholding", "shareholding_result">>, <<"cash_flow", "cashflow_result">> }

\* C7: when a fragment's section is absent from a fetched page (and the
\* write does not fail), a document of the symbol is persisted in which the
\* fragment's key is mapped to an empty container; for every fragment.
C7_AbsentFragmentPersistedEmpty ==
    run.endpoint = "main" =>
       \A i \in Positions(run), f \in MainFragments :
          (/\ Ended(run, i)
           /\ run.local[i].fetched
           /\ ~run.local[i].soup[f[1]].container
           /\ Outcome(run, i).exc # "PyMongoError")
          => \E k \in DocsFor(run, run.stock_symbols[i]) :
                /\ f[2] \in DOMAIN run.store[k]
                /\ run.store[k][f[2]] = <<>>

\* C8: the rendered fetch failed or timed out, the static page was fetched
\* and its fragments extracted (and neither the concalls fetch nor the write
\* failed): the outcome is a success and a document is persisted.
C8_RenderFailureStillPersists ==
    run.endpoint = "selenium" =>
       \A i \in Positions(run) :
          LET sym == run.stock_symbols[i]
              soup == run.local[i].soup
          IN (/\ Ended(run, i)
              /\ run.local[i].rendered = "failed"
              /\ run.local[i].fetched
              /\ Truthy(parse_ul_top_ratios(sym, soup).val)
              /\ ~Raised(parse_shareholder_table(sym, soup))
              /\ Truthy(parse_shareholder_table(sym, soup).val)
              /\ Outcome(run, i).exc \notin { "PyMongoError", "ConnectionError", "AttributeError" })
             => /\ Saved(Outcome(run, i))
                /\ DocsFor(run, sym) # {}

\* Whether a fragment of the fetched page gave data that is not empty.
YieldedData(e, sym, soup) ==
    IF e = "shp"
    THEN LET data == parse_shareholder_table_annual(sym, soup)
         IN ~Raised(data) /\ Truthy(data.val)
    ELSE \/ LET details_data == parse_ul_top_ratios(sym, soup).val
            IN Truthy(details_data) /\ details_data.d.stock_details # <<>>
         \/ parse_profit_loss_table(sym, soup).val.d.profit_loss # <<>>
         \/ parse_balance_sheet_table(sym, soup).val.d.balance_sheet # <<>>
         \/ parse_quaterly_result_table(sym, soup).val.d.quarterly_result # <<>>
         \/ shareholding_table(sym, soup).val.d.shareholding_result # <<>>
         \/ cashflow_table(sym, soup).val.d.cashflow_result # <<>>

\* C9: a pipeline whose fetched page gave non-empty data for at least one
\* fragment (and whose write did not fail) has persisted a document.
C9_DataImpliesPersisted ==
    run.endpoint \in { "main", "shp" } =>
       \A i \in Positions(run) :
          (/\ Ended(run, i)
           /\ run.local[i].fetched
           /\ YieldedData(run.endpoint, run.stock_symbols[i], run.local[i].soup)
           /\ Outcome(run, i).exc # "PyMongoError")
          => DocsFor(run, run.stock_symbols[i]) # {}

\* The symbols with a fetch that was issued and has not ended.
Outstanding(r) == { i \in Positions(r) : r.pc[i] \in FetchPhases }

\* C10: in every state of a run at most one symbol has an outstanding
\* fetch, in the sequential loops and in the gather endpoints alike.
C10_AtMostOneOutstandingFetch ==
    run.status # "idle" => Cardinality(Outstanding(run)) <= 1

\* A gather endpoint with two tasks: the first one in its fetch, the second
\* one not started.
C10_Witness ==
    /\ run.endpoint \in GatherEndpoints
    /\ Len(run.stock_symbols) = 2
    /\ run.pc[1] = "static"
    /\ run.pc[2] = "pending"

\* C11: the i-th entry of the results an endpoint returns is the outcome of
\* the pipeline of the i-th requested symbol, for the loops and for gather.
C11_ResultsInRequestOrder ==
    run.status = "returned" =>
       /\ Len(run.results) = Len(run.stock_symbols)
       /\ \A i \in Positions(run) :
             /\ run.results[i] # NoOutcome
             /\ run.results[i].stock_symbol = run.stock_symbols[i]
             /\ run.endpoint \in GatherEndpoints => run.results[i] = run.task_result[i]
             /\ Saved(run.results[i]) <=> DocOf(run, i) # NoDoc

\* A returned batch of two different symbols with different outcomes.
C11_Witness ==
    /\ run.status = "returned"
    /\ Len(run.stock_symbols) = 2
    /\ run.stock_symbols[1] # run.stock_symbols[2]
    /\ Saved(run.results[1])
    /\ run.results[2].exc = "ConnectionError"

C13_EmptyInputRunsNothing ==
    (/\ run.status # "idle"
     /\ run.endpoint # "annual_ul"
     /\ \A i \in Positions(run) : run.stock_symbols[i] = <<>>)
    => /\ \A i \in Positions(run) : run.pc[i] = "pending"
       /\ run.store = <<>>
       /\ run.status # "returned"

\* The trimmed, uppercased forms of the tokens of the caller's input.
NormalizedTokens(r) == { Upper(Strip(r.tokens[k])) : k \in 1..Len(r.tokens) }

\* C14: every symbol a pipeline runs for, and every symbol in an outcome or
\* in a persisted document, is the trimmed, uppercased form of a token of the
\* caller's input, in every batch endpoint.
C14_SymbolsNormalized ==
    run.status # "idle" =>
       /\ \A i \in Positions(run) :
             /\ run.pc[i] # "pending" => run.stock_symbols[i] \in NormalizedTokens(run)
             /\ Outcome(run, i) # NoOutcome =>
                   Outcome(run, i).stock_symbol \in NormalizedTokens(run)
       /\ \A k \in 1..Len(run.store) :
             run.store[k].stock_symbol \in NormalizedTokens(run)

\* The keys of a fully merged document of the combined pipelines.
DocKeys(e) ==
    { "stock_symbol", "stock_details", "shareholder_data", "profit_loss",
      "balance_sheet", "quarterly_result", "shareholding_result", "cashflow_result",
      "annual_reports" }
    \cup IF e = "main" THEN { "peer_comparision" }
         ELSE { "ratios_result", "peers", "credit_ratings", "scrape_concalls" }

\* C15: in the combined pipelines the store only ever holds fully merged
\* documents (every fragment's key is there), and it holds exactly one
\* document per pipeline that reported success and none for any other: a
\* pipeline writes at most once, after the merge.
C15_OnlyMergedDocumentsPersisted ==
    run.endpoint \in { "main", "selenium" } =>
       /\ \A k \in 1..Len(run.store) : DOMAIN run.store[k] = DocKeys(run.endpoint)
       /\ Len(run.store) = Cardinality({ i \in Positions(run) : Saved(Outcome(run, i)) })
       /\ \A i \in Positions(run) :
             run.pc[i] = "persist" => DOMAIN run.local[i].combined_data = DocKeys(run.endpoint)

\* The pipeline with the rendered leg has written its merged document.
C15_Witness ==
    /\ run.endpoint = "selenium"
    /\ Len(run.store) = 1
    /\ run.local[1].rendered = "ok"
    /\ Saved(Outcome(run, 1))

\* C16: the browser session is released on every exit path of a rendered
\* fetch (page parsed, wait timed out, error of the browser): once a
\* pipeline is past its rendered leg the session is not open, and no call
\* ends with the session open.
C16_SessionReleased ==
    run.endpoint = "selenium" =>
       /\ \A i \in Positions(run) : run.pc[i] \notin { "pending", "render" } => run.driver # "open"
       /\ run.status \in { "returned", "raised" } => run.driver # "open"

\* The call has ended after a rendered fetch that timed out, the session
\* released.
C16_Witness ==
    /\ run.endpoint = "selenium"
    /\ run.status = "raised"
    /\ run.raised = "TypeError"
    /\ run.local[1].rendered = "failed"
    /\ run.driver = "quit"

\* C17: every rendered fetch is made on a session that is open (never on
\* one a previous pipeline has quit), and the session is not quit while a
\* pipeline that has not started still needs it.
C17_RenderOnOpenSession ==
    run.endpoint = "selenium" =>
       \A i \in Positions(run) :
          /\ run.local[i].session # "quit"
          /\ (run.pc[i] = "pending" /\ run.status = "running") => run.driver # "quit"

\* Whether the outcome is the failure of the static fetch: HTTPException of
\* fetch_page, the status-carrying Exception of scrape_table_data, or the
\* network error of requests.get.
FetchFailed(o) ==
    \/ o.exc \in { "HTTPException", "ConnectionError" }
    \/ o.exc = "Exception" /\ o.code # 0

\* C18: a static response with a 2xx status is taken as success; a non-2xx
\* response gives a failure that carries its status code; a network error
\* gives a failure that carries the cause.
C18_StaticFetchOutcome ==
    run.endpoint \in { "main", "table", "shp" } =>
       \A i \in Positions(run) :
          LET response == run.local[i].response
              o == Outcome(run, i)
          IN Ended(run, i) =>
                /\ (response.kind = "http" /\ response.status_code \in 200..299)
                      => ~FetchFailed(o)
                /\ (response.kind = "http" /\ response.status_code \notin 200..299)
                      => (FetchFailed(o) /\ o.code = response.status_code)
                /\ response.kind = "neterr" => o.exc = "ConnectionError"

\* C19: a write that raises gives that symbol a failure outcome carrying the
\* error and no document; the pipeline has ended and never writes again
\* (its outcome stays, it never returns to the write); the exception does
\* not leave the endpoint, and the later symbols get their outcomes.
C19_WriteFailureIsolated ==
    /\ [](\A i \in Positions(run) :
             Outcome(run, i).exc = "PyMongoError" =>
                /\ Ended(run, i)
                /\ Outcome(run, i).stock_symbol = run.stock_symbols[i])
    /\ [](Len(run.store) = Cardinality({ i \in Positions(run) : Saved(Outcome(run, i)) }))
    /\ [](run.status = "raised" => run.raised \in { "TypeError", "WebDriverException" })
    /\ [](run.status = "returned" =>
             \A j \in Positions(run) : run.pc[j] = "done" /\ Outcome(run, j) # NoOutcome)
    /\ [][\A i \in Positions(run) :
             Ended(run, i) => (run'.pc[i] # "persist" /\ Outcome(run', i) = Outcome(run, i))]_vars

\* The first symbol's write raised, the second symbol was saved, and the
\* endpoint has returned.
C19_Witness ==
    /\ run.status = "returned"
    /\ Len(run.stock_symbols) = 2
    /\ Outcome(run, 1).exc = "PyMongoError"
    /\ Saved(Outcome(run, 2))
    /\ Len(run.store) = 1

\* The body row the k-th returned row was made from: scrape_table_data
\* returns a row for every body row, the section extractors for the rows
\* with as many cells as headers.
SourceRow(k) ==
    IF out.fn = "scrape_table_data" THEN input.tbl.rows[k] ELSE WellFormedRows[k]

\* C20: in the shareholder-table extractor (scrape_table_data) and in the
\* section-table extractors, a returned row made from a body row with as
\* many cells as headers maps "Category" to the first cell and the header
\* at position i to the cell at position i, for every later position i.
C20_CategoryForFirstCell ==
    (/\ Applied(SectionExtractors \cup { "scrape_table_data" })
     /\ InHeaders # <<>>
     /\ ReturnedRows) =>
        \A k \in 1..Len(Emitted) :
           LET cells == SourceRow(k) IN
           Len(cells) = Len(InHeaders) =>
              /\ Category \in DOMAIN Emitted[k]
              /\ Emitted[k][Category] = cells[1]
              /\ \A i \in 2..Len(cells) :
                    LastPosition(i) => Emitted[k][InHeaders[i]] = cells[i]

\* The <li> items of the input list that have both sub-elements.
Complete == { n \in 1..Len(input.ul.items) :
                 input.ul.items[n].has_name /\ input.ul.items[n].has_value }

\* C21: the mapping parse_ul_top_ratios returns for the list (under
\* stock_details) has exactly one entry per distinct name among the items
\* with both a name and a value; the other items add nothing; a name that
\* occurs more than once keeps the value of its last occurrence.
C21_TopRatiosEntries ==
    (Applied({ "parse_ul_top_ratios" }) /\ input.ul.container) =>
        /\ ~Raised(out.res)
        /\ out.res.val.t = "dict"
        /\ LET items_dict == out.res.val.d.stock_details
               lis == input.ul.items
           IN /\ DOMAIN items_dict = { get_text(lis[n].name) : n \in Complete }
              /\ \A n \in Complete :
                    (\A m \in Complete : m > n => get_text(lis[m].name) # get_text(lis[n].name))
                       => items_dict[get_text(lis[n].name)] = get_text(lis[n].value)

\* Two complete items whose names differ only by blanks: one entry, with
\* the second value.
C21_Witness ==
    /\ Applied({ "parse_ul_top_ratios" })
    /\ Len(input.ul.items) = 2
    /\ Complete = { 1, 2 }
    /\ input.ul.items[1].name # input.ul.items[2].name
    /\ get_text(input.ul.items[1].name) = get_text(input.ul.items[2].name)
    /\ Cardinality(DOMAIN out.res.val.d.stock_details) = 1

\* The merged document of the pipeline at position i, once it has one.
MergedOf(r, i) ==
    IF r.pc[i] = "persist" THEN r.local[i].combined_data ELSE DocOf(r, i)

HasMalformedRow ==
    /\ input.tbl.container /\ input.tbl.data_table /\ input.tbl.thead
    /\ input.tbl.head_tr /\ input.tbl.tbody
    /\ InHeaders # <<>>
    /\ \E k \in 1..Len(input.tbl.rows) : Len(input.tbl.rows[k]) # Len(InHeaders)

\* C23: a table extractor applied to a table with a malformed row (more or
\* fewer cells than headers) does not raise, and returns at least the
\* well-formed rows of the table.
C23_MalformedRowIsolated ==
    (Applied(TableExtractors) /\ HasMalformedRow) =>
        /\ ReturnedRows
        /\ Len(Emitted) >= Len(WellFormedRows)

\* Whether the answer to a /consolidated/ request is a failed fetch or, where
\* the concalls list is read, holds a concalls item without its date element.
AuxFailed(e, response) ==
    \/ response.kind = "neterr"
    \/ response.kind = "http" /\ response.status_code # 200
    \/ /\ e = "selenium"
       /\ response.kind = "http"
       /\ \E n \in 1..Len(response.page.concalls.items) :
             ~response.page.concalls.items[n].has_name

\* Whether obtaining or extracting one fragment of the pipeline at position
\* i has failed: the shareholder table has no thead, or the last
\* /consolidated/ request failed or gave a malformed concalls item.
FragmentFailed(r, i) ==
    \/ /\ r.local[i].soup.quarterly_shp.container
       /\ ~r.local[i].soup.quarterly_shp.thead
    \/ AuxFailed(r.endpoint, r.local[i].aux)

\* C24: a pipeline of the combined endpoints that has fetched its page, in
\* which one fragment failed while the top-ratios fragment was extracted
\* with data (and the rendered leg gave its fragment, and the write did not
\* fail), ends with the sibling fragments merged and persisted.
C24_FragmentFailureIsolated ==
    run.endpoint \in { "main", "selenium" } =>
       \A i \in Positions(run) :
          LET sym == run.stock_symbols[i]
              soup == run.local[i].soup
          IN (/\ Ended(run, i)
              /\ run.local[i].fetched
              /\ FragmentFailed(run, i)
              /\ Truthy(parse_ul_top_ratios(sym, soup).val)
              /\ soup.quarterly_shp.container
              /\ (run.endpoint = "selenium" => run.local[i].rendered = "ok")
              /\ Outcome(run, i).exc # "PyMongoError")
             => /\ Saved(Outcome(run, i))
                /\ DocsFor(run, sym) # {}
                /\ DocOf(run, i) # NoDoc
                /\ DocOf(run, i).stock_details # <<>>

\* Whether the pipeline at position i has extracted a fragment: the static
\* page was parsed and given to the extractors, or the rendered page gave
\* the peers fragment.
ExtractionBegun(r, i) == r.local[i].fetched \/ r.local[i].rendered = "ok"

\* C25: in the combined pipelines the phases come in the order fetch,
\* extract, merge, persist, outcome; in particular no pipeline is waiting
\* for a network or browser fetch once it has extracted a fragment.
C25_NoFetchAfterExtraction ==
    run.endpoint \in { "main", "selenium" } =>
       \A i \in Positions(run) :
          run.pc[i] \in FetchPhases => ~ExtractionBegun(run, i)

\* The keys a fragment writes into the merged document.
KeysOf(v) == IF v.t = "dict" THEN DOMAIN v.d ELSE {}

\* Two fragments of the merge of the pipeline at position i write one key.
Collision(r, i) ==
    \E a \in 1..Len(fragments(r, i)), b \in 1..Len(fragments(r, i)) :
       a < b /\ KeysOf(fragments(r, i)[a]) \cap KeysOf(fragments(r, i)[b]) # {}

C27_OneStaticGet ==
    \A i \in Positions(run) :
       /\ Len(run.local[i].gets) <= 1
       /\ \A n \in 1..Len(run.local[i].gets) : run.local[i].gets[n] = PageUrl

\* C28: the endpoints that gather their pipelines run them concurrently:
\* gather starts every pipeline before any of them can end, so when one has
\* ended every later one has begun its fetch; and the call does not end by
\* an exception.
C28_GatherRunsConcurrently ==
    run.endpoint \in GatherEndpoints \cup { "selenium" } =>
       /\ \A i \in Positions(run), j \in Positions(run) :
             (i < j /\ Ended(run, i)) => run.pc[j] # "pending"
       /\ run.raised # "TypeError"

\* C29: in main.py's combined pipeline every document of the store was
\* written by a pipeline with the success outcome, carries that pipeline's
\* symbol as stock_symbol and has the keys stock_details and
\* shareholder_data; there are as many documents as success outcomes, and a
\* step records a success outcome exactly when it adds one document.
C29_DocumentAndOutcome ==
    /\ [](run.endpoint = "main" =>
             /\ Len(run.store) =
                   Cardinality({ i \in Positions(run) : Saved(Outcome(run, i)) })
             /\ \A i \in Positions(run) :
                   Saved(Outcome(run, i)) =>
                      /\ { "stock_symbol", "stock_details", "shareholder_data" }
                            \subseteq DOMAIN DocOf(run, i)
                      /\ DocOf(run, i).stock_symbol = run.stock_symbols[i]
                      /\ Outcome(run, i).stock_symbol = run.stock_symbols[i])
    /\ [][run.endpoint = "main" =>
             /\ Len(run'.store) \in { Len(run.store), Len(run.store) + 1 }
             /\ \A k \in 1..Len(run.store) : run'.store[k] = run.store[k]
             /\ (Len(run'.store) = Len(run.store) + 1) <=>
                   (\E i \in Positions(run) :
                       /\ run.pc[i] = "persist"
                       /\ ~Saved(Outcome(run, i))
                       /\ Saved(Outcome(run', i)))
             /\ \A i \in Positions(run) :
                   (~Saved(Outcome(run, i)) /\ Saved(Outcome(run', i)))
                      => run.pc[i] = "persist"]_vars

\* The first pipeline's write raised and the second pipeline has written
\* the one document of the store, under its symbol.
C29_Witness ==
    /\ run.endpoint = "main"
    /\ Len(run.stock_symbols) = 2
    /\ run.stock_symbols[2] # <<>>
    /\ Outcome(run, 1).exc = "PyMongoError"
    /\ Saved(Outcome(run, 2))
    /\ Len(run.store) = 1
    /\ run.store[1].stock_symbol = run.stock_symbols[2]
    /\ run.store[1].shareholder_data # <<>>

\* C30: under the proviso that every fetch, wait, write and sleep ends, a
\* batch run eventually returns its results, with an outcome recorded for
\* every symbol and no pipeline left in an intermediate phase (unless the
\* browser could not be started at all).
C30_BatchReturnsResults ==
    <>(\/ /\ run.status = "returned"
          /\ \A i \in Positions(run) : run.pc[i] = "done" /\ Outcome(run, i) # NoOutcome
       \/ run.raised = "WebDriverException")

====
